---- MODULE Spec2Model ----
(***************************************************************************)
(* Incremental vector-index synchronisation of drcecim_upload.             *)
(*                                                                         *)
(*   Spec    the FAISS/GCS orchestrator                                    *)
(*           (cloud_functions/create_embeddings/main.py), several runs     *)
(*           interleaved at their storage operations;                      *)
(*   SpecFn  IndexManagerService.remove_old_document_chunks followed by    *)
(*           update_index, on every loaded store of at most MaxStored      *)
(*           rows (services/index_manager_service.py);                     *)
(*   SpecPg  the PostgreSQL pipeline (cloud_functions/main.py), one run    *)
(*           after the other.                                              *)
(*                                                                         *)
(* The outcome of a call to a storage service, to the database or to the   *)
(* embeddings API is chosen by the environment: it succeeds or it fails.   *)
(*                                                                         *)
(* File names are sequences of tokens ("a", ".pdf", "uploads/", ...), so   *)
(* that Path(name).stem and name.replace('.pdf', '') are computed, not     *)
(* assumed equal.  A vector is identified by the chunk it embeds.          *)
(***************************************************************************)
EXTENDS Integers, Sequences, FiniteSets, Bags, TLC

(***************************************************************************)
(* Bounds of the model.                                                    *)
(***************************************************************************)
MaxRuns == 3
MaxChunks == 2
MaxVersions == 2
MaxStored == 3

(***************************************************************************)
(* Program constants.                                                      *)
(***************************************************************************)
VECTOR_DIMENSION == 1536
\* the dimension of the other embedding model (text-embedding-3-large)
LARGE_DIMENSION == 3072

\* function instances that serve events; each serves one event at a time
Instances == {1, 2}

(***************************************************************************)
(* File names and the two document keys the code derives from them.        *)
(***************************************************************************)
Suffixes == {".pdf", ".PDF"}
Digits == {"7"}

Filenames == { <<"a", ".pdf">>, <<"7", ".pdf">>, <<"c", ".PDF">> }

RECURSIVE LastDir(_, _)
\* position of the last directory separator in name[1..n], 0 if none
LastDir(name, n) ==
    IF n = 0 THEN 0
    ELSE IF name[n] = "uploads/" THEN n ELSE LastDir(name, n - 1)

\* pathlib: the final path component
PathName(name) == SubSeq(name, LastDir(name, Len(name)) + 1, Len(name))

\* pathlib: the final component without its last suffix (a leading dot is
\* no suffix: Path(".pdf").stem is ".pdf")
PathStem(name) ==
    LET base == PathName(name) IN
    IF Len(base) > 1 /\ base[Len(base)] \in Suffixes
    THEN SubSeq(base, 1, Len(base) - 1)
    ELSE base

\* str.replace('.pdf', ''): every occurrence, case sensitive
ReplacePdf(name) == SelectSeq(name, LAMBDA t : t # ".pdf")

\* x.replace('.pdf', '') if x.endswith('.pdf') else x
FallbackDocumentId(name) ==
    IF Len(name) > 0 /\ name[Len(name)] = ".pdf" THEN ReplacePdf(name) ELSE name

(***************************************************************************)
(* Metadata tables.  In memory (a DataFrame) the document_id cell carries  *)
(* its type; in the CSV file it is text.                                   *)
(***************************************************************************)
StrCell(s) == [t |-> "str", s |-> s]
IntCell(s) == [t |-> "int", s |-> s]
NoCell == [t |-> "absent", s |-> <<>>]

IsNumeric(s) == Len(s) > 0 /\ \A k \in 1..Len(s) : s[k] \in Digits

\* f"{document_id}_{chunk_index}"
chunk_id(document_id, chunk_index) == document_id \o <<"_", ToString(chunk_index)>>

\* EmbeddingService.create_metadata: one row per chunk, chunk order
create_metadata(filename, n, ver) ==
    [k \in 1..n |->
        [document_id |-> StrCell(PathStem(filename)),
         chunk_id |-> chunk_id(PathStem(filename), k - 1),
         filename |-> filename,
         chunk_index |-> k - 1,
         text |-> ver]]

\* the vector of a chunk: determined by the chunk's text
Embed(filename, ver, k) == [f |-> filename, v |-> ver, i |-> k]

generate_embeddings(filename, n, ver) ==
    [d |-> VECTOR_DIMENSION,
     vecs |-> [k \in 1..n |-> Embed(filename, ver, k - 1)]]

\* DataFrame.to_csv(index=False): cells become text
to_csv(rows) ==
    [k \in 1..Len(rows) |-> [rows[k] EXCEPT !.document_id = rows[k].document_id.s]]

\* pd.read_csv: a column whose every cell parses as a number is numeric
read_csv(lines) ==
    LET numeric == Len(lines) > 0 /\ \A k \in 1..Len(lines) : IsNumeric(lines[k].document_id)
    IN [k \in 1..Len(lines) |->
          [lines[k] EXCEPT !.document_id =
              IF lines[k].document_id = <<>> THEN NoCell
              ELSE IF numeric THEN IntCell(lines[k].document_id)
              ELSE StrCell(lines[k].document_id)]]

(***************************************************************************)
(* Indexes.  None is the absent index.                                     *)
(***************************************************************************)
None == [present |-> FALSE, d |-> 0, vecs |-> <<>>]
IndexFlatIP(d, vecs) == [present |-> TRUE, d |-> d, vecs |-> vecs]
ntotal(index) == Len(index.vecs)

\* the elements of s at the positions of ps, in the order of ps
RECURSIVE Take(_, _)
Take(s, ps) ==
    IF ps = <<>> THEN <<>> ELSE <<s[Head(ps)]>> \o Take(s, Tail(ps))

\* the positions 1..n whose row satisfies the test, ascending
Where(rows, test(_)) ==
    SelectSeq([k \in 1..Len(rows) |-> k], LAMBDA k : test(rows[k]))

\* 'document_id' not in existing_metadata.columns: fill it from filename
with_document_id(rows) ==
    IF \A k \in 1..Len(rows) : rows[k].document_id = NoCell
    THEN [k \in 1..Len(rows) |->
            [rows[k] EXCEPT !.document_id = StrCell(FallbackDocumentId(rows[k].filename))]]
    ELSE rows

(***************************************************************************)
(* IndexManagerService.remove_old_document_chunks (the same text as        *)
(* create_embeddings/main.py remove_old_document_chunks).  error is TRUE   *)
(* when the body raised and the except branch returned its arguments.      *)
(***************************************************************************)
remove_old_document_chunks(existing_index, existing_metadata, document_id) ==
    IF ~existing_index.present \/ existing_metadata = <<>>
    THEN [index |-> existing_index, metadata |-> existing_metadata,
          removed |-> <<>>, error |-> FALSE]
    ELSE
      LET md == with_document_id(existing_metadata)
          chunks_to_remove == Where(md, LAMBDA row : row.document_id = StrCell(document_id))
          remaining_indices == Where(md, LAMBDA row : row.document_id # StrCell(document_id))
      IN
      IF chunks_to_remove = <<>>
      THEN [index |-> existing_index, metadata |-> md, removed |-> <<>>, error |-> FALSE]
      ELSE IF remaining_indices = <<>>
      THEN [index |-> None, metadata |-> <<>>, removed |-> chunks_to_remove, error |-> FALSE]
      ELSE IF \E k \in 1..Len(remaining_indices) : remaining_indices[k] > ntotal(existing_index)
      \* all_vectors[remaining_indices] raises IndexError
      THEN [index |-> existing_index, metadata |-> md, removed |-> <<>>, error |-> TRUE]
      ELSE [index |-> IndexFlatIP(existing_index.d, Take(existing_index.vecs, remaining_indices)),
            metadata |-> Take(md, remaining_indices),
            removed |-> chunks_to_remove, error |-> FALSE]

\* update_index with the new rows put before the existing ones
update_index_new_first(existing_index, existing_metadata, new_embeddings, new_metadata) ==
    IF ~existing_index.present
    THEN [index |-> IndexFlatIP(new_embeddings.d, new_embeddings.vecs),
          metadata |-> new_metadata, error |-> FALSE]
    ELSE [index |-> IndexFlatIP(existing_index.d, existing_index.vecs \o new_embeddings.vecs),
          metadata |-> new_metadata \o existing_metadata, error |-> FALSE]

\* update_index that adds the vectors whatever their dimension
update_index_any_dimension(existing_index, existing_metadata, new_embeddings, new_metadata) ==
    IF ~existing_index.present
    THEN [index |-> IndexFlatIP(new_embeddings.d, new_embeddings.vecs),
          metadata |-> new_metadata, error |-> FALSE]
    ELSE [index |-> IndexFlatIP(existing_index.d, existing_index.vecs \o new_embeddings.vecs),
          metadata |-> existing_metadata \o new_metadata, error |-> FALSE]

\* update_index that concatenates the rows and leaves the vectors out
update_index_rows_only(existing_index, existing_metadata, new_embeddings, new_metadata) ==
    IF ~existing_index.present
    THEN [index |-> IndexFlatIP(new_embeddings.d, new_embeddings.vecs),
          metadata |-> new_metadata, error |-> FALSE]
    ELSE IF existing_index.d # new_embeddings.d
    THEN [index |-> existing_index, metadata |-> existing_metadata, error |-> TRUE]
    ELSE [index |-> existing_index,
          metadata |-> existing_metadata \o new_metadata, error |-> FALSE]

(***************************************************************************)
(* IndexManagerService.update_index (the same text as                      *)
(* create_embeddings/main.py update_faiss_index).  error is TRUE when      *)
(* faiss refuses vectors of another dimension and the exception is raised. *)
(***************************************************************************)
update_index(existing_index, existing_metadata, new_embeddings, new_metadata) ==
    IF ~existing_index.present
    THEN [index |-> IndexFlatIP(new_embeddings.d, new_embeddings.vecs),
          metadata |-> new_metadata, error |-> FALSE]
    ELSE IF existing_index.d # new_embeddings.d
    THEN [index |-> existing_index, metadata |-> existing_metadata, error |-> TRUE]
    ELSE [index |-> IndexFlatIP(existing_index.d, existing_index.vecs \o new_embeddings.vecs),
          metadata |-> existing_metadata \o new_metadata, error |-> FALSE]

(***************************************************************************)
(* State.                                                                  *)
(***************************************************************************)
VARIABLES
    gcs,        \* the two well-known objects: the index file and the metadata CSV
    registry,   \* status registry: status of each registered document
    pg,         \* the PostgreSQL embeddings table, a bag of rows
    started,    \* number of events delivered so far
    run,        \* per function instance: position and local variables of its run
    call,       \* a caller of IndexManagerService: its position and its locals
    job         \* the run of process_pdf_to_chunks: its position and its locals

vars == <<gcs, registry, pg, started, run, call, job>>

NoMetadataFile == [present |-> FALSE, lines |-> <<>>]
EmptyBucket == [faiss |-> None, meta |-> NoMetadataFile]

\* documents with a status object (process_pdf_to_chunks registered them)
Registered == { <<"a", ".pdf">> }

\* StatusService.register_document: the id is the file name and a timestamp
RegisteredId(filename) == filename \o <<"_ts">>

\* chunk set v of a document: its chunks differ from every other version's
ChunkCount(v) == IF v = 1 THEN MaxChunks ELSE MaxChunks - 1

\* the versions of a file that are uploaded
Versions(f) == IF f = <<"a", ".pdf">> THEN 1..MaxVersions ELSE {1}

Payloads ==
    UNION { { [filename |-> f, n |-> ChunkCount(v), ver |-> v, processed_successfully |-> TRUE] :
                v \in Versions(f) } : f \in Filenames }
    \cup { [filename |-> <<"a", ".pdf">>, n |-> 0, ver |-> 1, processed_successfully |-> TRUE],
           [filename |-> <<"a", ".pdf">>, n |-> 1, ver |-> 1, processed_successfully |-> FALSE] }

IdleRun ==
    [pc |-> "idle",
     chunks_data |-> [filename |-> <<>>, n |-> 0, ver |-> 1, processed_successfully |-> FALSE],
     document_id |-> <<>>,
     index |-> None, metadata |-> <<>>, index_exists |-> FALSE,
     uploaded_files |-> {},
     notified |-> "none",
     swallowed |-> {},
     error |-> "none",
     requested |-> FALSE,
     before |-> EmptyBucket, interfered |-> FALSE]

NoCall == [op |-> "none"]
NoJob == [pc |-> "idle"]

Init ==
    /\ gcs = EmptyBucket
    /\ registry = [f \in Registered |-> "completed"]
    /\ pg = EmptyBag
    /\ started = 0
    /\ run = [w \in Instances |-> IdleRun]
    /\ call = NoCall
    /\ job = NoJob

Terminal == {"PERSISTED", "FAILED"}
Free == {w \in Instances : run[w].pc \in {"idle"} \cup Terminal}
InFlight == Instances \ Free

\* StatusService.update_status: a no-op when no status object has this id
update_status(reg, document_id, status) ==
    [f \in Registered |-> IF RegisteredId(f) = document_id THEN status ELSE reg[f]]

\* find the registry id of a file name (lines 326-334)
find_document_id(filename) ==
    IF filename \in Registered THEN RegisteredId(filename) ELSE <<>>

\* VectorDBService.store_embeddings: one row per metadata row
store_embeddings(table, rows) ==
    table (+) SetToBag({ [rows[k] EXCEPT !.document_id = rows[k].document_id.s] : k \in 1..Len(rows) })

\* an upload of instance w reached the bucket: every other run has seen a
\* foreign write since it started
Interfere(w, runs) ==
    [q \in Instances |->
        IF q # w /\ runs[q].pc # "idle" THEN [runs[q] EXCEPT !.interfered = TRUE] ELSE runs[q]]

(***************************************************************************)
(* EmbeddingService.process_document_embeddings.  The embeddings API and   *)
(* the database are the environment.                                       *)
(***************************************************************************)
\* what the embeddings API does with a request of n texts
ApiAnswers(n) == { [raised |-> r, count |-> m] : r \in BOOLEAN, m \in 0..(n + 1) }
                 \ { [raised |-> TRUE, count |-> m] : m \in 1..(n + 1) }

\* OpenAIEmbedding.encode: [item.embedding for item in response.data]
encode(filename, ver, count) == [k \in 1..count |-> Embed(filename, ver, k - 1)]

NoResult == [processed_successfully |-> FALSE, error |-> "", embeddings |-> <<>>,
             metadata |-> <<>>, requested |-> FALSE, stored |-> <<>>]

Failed(error, requested) ==
    [NoResult EXCEPT !.error = error, !.requested = requested]

\* store_embeddings without the comparison of the two lengths
storage_success_unchecked(embeddings, metadata_df, commits) == commits

\* VectorDBService.store_embeddings and store_embeddings_in_db: False when
\* the counts differ or the transaction fails, and then no row is written
storage_success(embeddings, metadata_df, commits) ==
    Len(embeddings) = Len(metadata_df) /\ commits

\* process_document_embeddings without the check for an empty chunk list
process_document_embeddings_unvalidated(processed_doc, answer, commits) ==
    IF ~processed_doc.processed_successfully
    THEN Failed("El documento no se procesó correctamente", FALSE)
    ELSE IF answer.raised
    THEN Failed("API", TRUE)
    ELSE LET embeddings == encode(processed_doc.filename, processed_doc.ver, answer.count)
             metadata == create_metadata(processed_doc.filename, processed_doc.n,
                                         processed_doc.ver)
         IN IF Len(embeddings) = 0
            THEN Failed("No se generaron embeddings", TRUE)
            ELSE IF ~storage_success(embeddings, metadata, commits)
            THEN Failed("Error al almacenar embeddings en PostgreSQL", TRUE)
            ELSE [processed_successfully |-> TRUE, error |-> "",
                  embeddings |-> embeddings, metadata |-> metadata,
                  requested |-> TRUE, stored |-> metadata]

\* process_document_embeddings: the dictionary it returns, with the rows it
\* has written to the table and whether it called the API.  _preprocess_texts
\* hands the API one text for each chunk.
process_document_embeddings(processed_doc, answer, commits) ==
    IF ~processed_doc.processed_successfully
    THEN Failed("El documento no se procesó correctamente", FALSE)
    ELSE IF processed_doc.n = 0
    THEN Failed("No se encontraron chunks en el documento", FALSE)
    ELSE IF answer.raised
    THEN Failed("API", TRUE)
    ELSE LET embeddings == encode(processed_doc.filename, processed_doc.ver, answer.count)
             metadata == create_metadata(processed_doc.filename, processed_doc.n,
                                         processed_doc.ver)
         IN IF Len(embeddings) = 0
            THEN Failed("No se generaron embeddings", TRUE)
            ELSE IF ~storage_success(embeddings, metadata, commits)
            THEN Failed("Error al almacenar embeddings en PostgreSQL", TRUE)
            ELSE [processed_successfully |-> TRUE, error |-> "",
                  embeddings |-> embeddings, metadata |-> metadata,
                  requested |-> TRUE, stored |-> metadata]

(***************************************************************************)
(* create_embeddings_from_chunks, one action per storage operation.        *)
(***************************************************************************)

\* the run reports st for its current document_id, when it has one
Report(rec, st) ==
    [rec EXCEPT !.notified = IF rec.document_id # <<>> THEN st ELSE @]

\* the function returns in state st: its index and metadata locals are gone
Return(rec, st) ==
    [rec EXCEPT !.pc = st, !.index = None, !.metadata = <<>>, !.index_exists = FALSE]

Registry(rec, st) ==
    IF rec.document_id # <<>> THEN update_status(registry, rec.document_id, st) ELSE registry

\* the except branch of create_embeddings_from_chunks (lines 443-454)
Raise(w) ==
    /\ run' = [run EXCEPT ![w] = Return(Report(run[w], "error"), "FAILED")]
    /\ registry' = Registry(run[w], "error")

\* the storage event is delivered to a free instance: a finalize event for a
\* *_chunks.json object.  The trigger delivers one event per object at a
\* time, so no two runs of the same file are in flight together.
Receive(w, chunks_data) ==
    /\ w \in Free
    /\ \A q \in Free : w <= q
    /\ started < MaxRuns
    /\ \A q \in InFlight : run[q].chunks_data.filename # chunks_data.filename
    /\ started' = started + 1
    /\ run' = [run EXCEPT ![w] =
                 [IdleRun EXCEPT !.pc = "RECEIVED",
                                 !.chunks_data = chunks_data,
                                 !.before = gcs]]
    /\ UNCHANGED <<gcs, registry, pg, call, job>>

\* lines 317-343: read and parse the chunks object, look the document up in
\* the registry and report PROCESSING
LoadChunks(w) ==
    /\ run[w].pc = "RECEIVED"
    /\ \/ Raise(w)
       \/ LET rec == [run[w] EXCEPT !.document_id = find_document_id(run[w].chunks_data.filename)] IN
          /\ run' = [run EXCEPT ![w] = [Report(rec, "processing") EXCEPT !.pc = "CHUNKS_LOADED"]]
          /\ registry' = Registry(rec, "processing")
    /\ UNCHANGED <<gcs, pg, started, call, job>>

\* EmbeddingService.process_document_embeddings and lines 349-380
RequestEmbeddings(w) ==
    LET doc == run[w].chunks_data IN
    /\ run[w].pc = "CHUNKS_LOADED"
    /\ \E answer \in ApiAnswers(doc.n), commits \in BOOLEAN :
          LET embeddings_result == process_document_embeddings(doc, answer, commits)
              rec == [run[w] EXCEPT !.requested = embeddings_result.requested]
          IN
          \/ \* ValueError, an embedding request that fails, or rows not stored:
             \* processed_successfully is False and the function returns
             /\ ~embeddings_result.processed_successfully
             /\ run' = [run EXCEPT ![w] = Return(Report(rec, "error"), "FAILED")]
             /\ registry' = Registry(run[w], "error")
             /\ UNCHANGED pg
          \/ /\ embeddings_result.processed_successfully
             /\ pg' = store_embeddings(pg, embeddings_result.stored)
             /\ run' = [run EXCEPT ![w] = [Report(rec, "processing") EXCEPT !.pc = "EMBEDDINGS_REQUESTED"]]
             /\ registry' = Registry(run[w], "processing")
    /\ UNCHANGED <<gcs, started, call, job>>

\* load_existing_faiss_index, lines 70-89: the index object
LoadIndexFile(w) ==
    /\ run[w].pc = "EMBEDDINGS_REQUESTED"
    /\ \/ \* no index object, or file_exists answered False on an error, or
          \* the download or faiss.read_index raised: (None, empty, False)
          /\ run' = [run EXCEPT ![w].pc = "INDEX_LOADED",
                                ![w].index = None, ![w].metadata = <<>>,
                                ![w].index_exists = FALSE,
                                ![w].swallowed = IF gcs.faiss.present THEN @ \cup {"load"} ELSE @]
       \/ /\ gcs.faiss.present
          /\ run' = [run EXCEPT ![w].pc = "INDEX_LOADING", ![w].index = gcs.faiss]
    /\ UNCHANGED <<gcs, registry, pg, started, call, job>>

\* load_existing_faiss_index, lines 91-113: the metadata object
LoadMetadataFile(w) ==
    /\ run[w].pc = "INDEX_LOADING"
    /\ \/ \* no metadata object, or file_exists answered False on an error
          /\ run' = [run EXCEPT ![w].pc = "INDEX_LOADED",
                                ![w].metadata = <<>>, ![w].index_exists = TRUE,
                                ![w].swallowed = IF gcs.meta.present THEN @ \cup {"load"} ELSE @]
       \/ \* the download or read_csv raised
          /\ gcs.meta.present
          /\ run' = [run EXCEPT ![w].pc = "INDEX_LOADED",
                                ![w].index = None, ![w].metadata = <<>>,
                                ![w].index_exists = FALSE,
                                ![w].swallowed = @ \cup {"load"}]
       \/ /\ gcs.meta.present
          /\ run' = [run EXCEPT ![w].pc = "INDEX_LOADED",
                                ![w].metadata = read_csv(gcs.meta.lines),
                                ![w].index_exists = TRUE]
    /\ UNCHANGED <<gcs, registry, pg, started, call, job>>

\* lines 391-403: document_id is recomputed from the file name, and the
\* stale rows are removed when there is an index
RemoveStale(w) ==
    LET document_id == ReplacePdf(run[w].chunks_data.filename)
        res == remove_old_document_chunks(run[w].index, run[w].metadata, document_id)
    IN
    /\ run[w].pc = "INDEX_LOADED"
    /\ run' = [run EXCEPT ![w] =
                 IF document_id # <<>> /\ run[w].index.present
                 THEN [@ EXCEPT !.pc = "STALE_REMOVED",
                                !.document_id = document_id,
                                !.index = res.index, !.metadata = res.metadata,
                                !.swallowed = IF res.error THEN @ \cup {"remove"} ELSE @]
                 ELSE [@ EXCEPT !.pc = "STALE_REMOVED", !.document_id = document_id]]
    /\ UNCHANGED <<gcs, registry, pg, started, call, job>>

\* lines 405-417: update_faiss_index
AppendIndex(w) ==
    LET doc == run[w].chunks_data
        res == update_index(run[w].index, run[w].metadata,
                            generate_embeddings(doc.filename, doc.n, doc.ver),
                            create_metadata(doc.filename, doc.n, doc.ver))
    IN
    /\ run[w].pc = "STALE_REMOVED"
    /\ IF res.error
       THEN \* faiss refuses the vectors; the exception text is reported
            /\ run' = [run EXCEPT ![w] =
                         [Return(Report(run[w], "error"), "FAILED") EXCEPT !.error = "dimension"]]
            /\ registry' = Registry(run[w], "error")
       ELSE /\ run' = [run EXCEPT ![w].pc = "INDEX_APPENDED",
                                  ![w].index = res.index, ![w].metadata = res.metadata]
            /\ UNCHANGED registry
    /\ UNCHANGED <<gcs, pg, started, call, job>>

\* save_updated_index, lines 238-250: faiss.write_index, then the upload of
\* the index object, whose failure upload_file turns into False
SaveIndexFile(w) ==
    /\ run[w].pc = "INDEX_APPENDED"
    /\ \/ \* faiss.write_index raised
          /\ Raise(w)
          /\ UNCHANGED gcs
       \/ \* upload_file returned True
          /\ gcs' = [gcs EXCEPT !.faiss = run[w].index]
          /\ run' = Interfere(w, [run EXCEPT ![w].pc = "SAVING",
                                             ![w].uploaded_files = @ \cup {"faiss_index"}])
          /\ UNCHANGED registry
       \/ \* upload_file returned False
          /\ run' = [run EXCEPT ![w].pc = "SAVING"]
          /\ UNCHANGED <<gcs, registry>>
    /\ UNCHANGED <<pg, started, call, job>>

\* save_updated_index, lines 252-269: to_csv, then the upload of the
\* metadata object; then lines 423-436: the run reports COMPLETED
SaveMetadataFile(w) ==
    /\ run[w].pc = "SAVING"
    /\ \/ \* metadata_df.to_csv raised
          /\ Raise(w)
          /\ UNCHANGED gcs
       \/ \* upload_file returned True
          /\ gcs' = [gcs EXCEPT !.meta = [present |-> TRUE, lines |-> to_csv(run[w].metadata)]]
          /\ run' = Interfere(w, [run EXCEPT ![w] =
                        Return([Report(run[w], "completed") EXCEPT !.uploaded_files = @ \cup {"metadata"}],
                               "PERSISTED")])
          /\ registry' = Registry(run[w], "completed")
       \/ \* upload_file returned False
          /\ run' = [run EXCEPT ![w] = Return(Report(run[w], "completed"), "PERSISTED")]
          /\ registry' = Registry(run[w], "completed")
          /\ UNCHANGED gcs
    /\ UNCHANGED <<pg, started, call, job>>

Next ==
    \/ \E w \in Instances, chunks_data \in Payloads : Receive(w, chunks_data)
    \/ \E w \in Instances : LoadChunks(w)
    \/ \E w \in Instances : RequestEmbeddings(w)
    \/ \E w \in Instances : LoadIndexFile(w)
    \/ \E w \in Instances : LoadMetadataFile(w)
    \/ \E w \in Instances : RemoveStale(w)
    \/ \E w \in Instances : AppendIndex(w)
    \/ \E w \in Instances : SaveIndexFile(w)
    \/ \E w \in Instances : SaveMetadataFile(w)

Spec == Init /\ [][Next]_vars

(***************************************************************************)
(* IndexManagerService called on a loaded store: remove_old_document_chunks *)
(* for one document, then update_index with the chunks of another.  The    *)
(* loaded store is any table of at most MaxStored rows with its index; the *)
(* index may lag behind or run ahead of the table, as a save that uploaded *)
(* only one of the two objects leaves it.                                  *)
(***************************************************************************)
RECURSIVE Tables(_)
\* the file names of the rows of a table of at most n rows
Tables(n) ==
    IF n = 0 THEN {<<>>}
    ELSE LET shorter == Tables(n - 1)
         IN shorter \cup {Append(t, f) : t \in shorter, f \in Filenames}

\* the chunk index of row k: the rows of one file are numbered in order
ChunkIndex(files, k) == Cardinality({j \in 1..(k - 1) : files[j] = files[k]})

\* the CSV lines; a table written before the document_id column existed
\* has none
StoredLines(files, legacy) ==
    [k \in 1..Len(files) |->
        [document_id |-> IF legacy THEN <<>> ELSE PathStem(files[k]),
         chunk_id |-> IF legacy THEN <<>>
                      ELSE chunk_id(PathStem(files[k]), ChunkIndex(files, k)),
         filename |-> files[k],
         chunk_index |-> ChunkIndex(files, k),
         text |-> 1]]

StoredVecs(files) == [k \in 1..Len(files) |-> Embed(files[k], 1, ChunkIndex(files, k))]

Shapes == {"aligned", "short", "long"}

StoredIndex(files, shape) ==
    LET vecs == StoredVecs(files) IN
    CASE shape = "aligned" -> IF files = <<>> THEN None ELSE IndexFlatIP(VECTOR_DIMENSION, vecs)
      [] shape = "short" -> IF files = <<>> THEN None
                            ELSE IndexFlatIP(VECTOR_DIMENSION, SubSeq(vecs, 1, Len(vecs) - 1))
      [] shape = "long" -> IndexFlatIP(VECTOR_DIMENSION, Append(vecs, Embed(<<"z", ".pdf">>, 1, 0)))

\* the document ids the callers derive from the file names
DocumentIds == {PathStem(f) : f \in Filenames} \cup {ReplacePdf(f) : f \in Filenames}

InitFn ==
    /\ gcs = EmptyBucket
    /\ registry = [f \in Registered |-> "completed"]
    /\ pg = EmptyBag
    /\ started = 0
    /\ run = [w \in Instances |-> IdleRun]
    /\ job = NoJob
    /\ \E files \in Tables(MaxStored), legacy \in BOOLEAN, shape \in Shapes,
          document_id \in DocumentIds, filename \in Filenames :
          LET index == StoredIndex(files, shape)
              metadata == read_csv(StoredLines(files, legacy))
          IN call = [op |-> "start",
                     document_id |-> document_id,
                     filename |-> filename,
                     given |-> [index |-> index, metadata |-> metadata],
                     index |-> index, metadata |-> metadata,
                     removed |-> <<>>,
                     saved |-> [index |-> None, metadata |-> <<>>],
                     uploaded_files |-> {},
                     index_exists |-> FALSE,
                     attempt_number |-> 1,
                     attempts |-> [save |-> 0, load |-> 0],
                     failed |-> {}]

CallRemove ==
    LET res == remove_old_document_chunks(call.index, call.metadata, call.document_id) IN
    /\ call.op = "start"
    /\ call' = [call EXCEPT !.op = "removed",
                            !.index = res.index, !.metadata = res.metadata,
                            !.removed = res.removed]
    /\ UNCHANGED <<gcs, registry, pg, started, run, job>>

CallAppend ==
    LET n == ChunkCount(MaxVersions)
        res == update_index(call.index, call.metadata,
                            generate_embeddings(call.filename, n, MaxVersions),
                            create_metadata(call.filename, n, MaxVersions))
    IN
    /\ call.op = "removed"
    /\ call' = [call EXCEPT !.op = IF res.error THEN "raised" ELSE "appended",
                            !.index = res.index, !.metadata = res.metadata]
    /\ UNCHANGED <<gcs, registry, pg, started, run, job>>

\* the tenacity decorator of load_existing_index and save_index: the call
\* is made again when it raised one of these and fewer than three attempts
\* were made
retry_if_exception_type(exc) ==
    exc \in {"ServiceUnavailable", "TooManyRequests", "InternalServerError"}

stop_after_attempt(attempt_number) == attempt_number >= 3

\* one attempt of IndexManagerService.save_index on a bucket: the bucket it
\* leaves, the files it reports, the exception it raised ("none" when it
\* returned) and whether a request to the storage service failed.
\* GCSService.upload_file turns every failure into False.
save_index(bucket, faiss_index, metadata_df) ==
    LET index_uploads ==
          { [bucket |-> [bucket EXCEPT !.faiss = faiss_index],
             uploaded_files |-> {"faiss_index"}, failed |-> FALSE],
            [bucket |-> bucket, uploaded_files |-> {}, failed |-> TRUE] }
        metadata_uploads(r) ==
          { [bucket |-> [r.bucket EXCEPT !.meta = [present |-> TRUE, lines |-> to_csv(metadata_df)]],
             uploaded_files |-> r.uploaded_files \cup {"metadata"},
             exc |-> "none", failed |-> r.failed],
            [bucket |-> r.bucket, uploaded_files |-> r.uploaded_files,
             exc |-> "none", failed |-> TRUE],
            \* metadata_df.to_csv raised
            [bucket |-> r.bucket, uploaded_files |-> {}, exc |-> "OSError", failed |-> r.failed] }
    IN  \* faiss.write_index raised
        { [bucket |-> bucket, uploaded_files |-> {}, exc |-> "RuntimeError", failed |-> FALSE] }
        \cup UNION { metadata_uploads(r) : r \in index_uploads }

\* one attempt of IndexManagerService.load_existing_index on a bucket: what
\* it returns and whether a request to the storage service failed.  Every
\* exception is caught inside and answered with (None, empty, False).
load_existing_index(bucket) ==
    LET nothing(failed) ==
          [index |-> None, metadata |-> <<>>, index_exists |-> FALSE,
           exc |-> "none", failed |-> failed]
    IN  \* no index object, or file_exists answered False on an error, or the
        \* download or faiss.read_index raised
        { nothing(bucket.faiss.present) }
        \cup (IF bucket.faiss.present
              THEN { \* no metadata object, or file_exists answered False
                     [index |-> bucket.faiss, metadata |-> <<>>, index_exists |-> TRUE,
                      exc |-> "none", failed |-> bucket.meta.present] }
                   \cup (IF bucket.meta.present
                         THEN { nothing(TRUE),
                                [index |-> bucket.faiss,
                                 metadata |-> read_csv(bucket.meta.lines),
                                 index_exists |-> TRUE,
                                 exc |-> "none", failed |-> FALSE] }
                         ELSE {})
              ELSE {})

\* a caller saves what update_index returned
CallSave ==
    /\ call.op \in {"appended", "saving"}
    /\ \E r \in save_index(gcs, call.index, call.metadata) :
          /\ gcs' = r.bucket
          /\ call' = [call EXCEPT
                        !.op = IF r.exc = "none" THEN "saved"
                               ELSE IF retry_if_exception_type(r.exc)
                                       /\ ~stop_after_attempt(call.attempt_number)
                               THEN "saving"
                               ELSE "raised",
                        !.attempt_number = IF r.exc = "none" \/ ~retry_if_exception_type(r.exc)
                                              \/ stop_after_attempt(call.attempt_number)
                                           THEN 1 ELSE @ + 1,
                        !.saved = [index |-> call.index, metadata |-> call.metadata],
                        !.uploaded_files = r.uploaded_files,
                        !.failed = IF r.failed THEN @ \cup {"save"} ELSE @,
                        !.attempts = [@ EXCEPT !.save = call.attempt_number]]
    /\ UNCHANGED <<registry, pg, started, run, job>>

\* and a caller loads what is in the bucket
CallLoad ==
    /\ call.op \in {"saved", "loading"}
    /\ \E r \in load_existing_index(gcs) :
          call' = [call EXCEPT
                     !.op = IF r.exc = "none" THEN "loaded"
                            ELSE IF retry_if_exception_type(r.exc)
                                    /\ ~stop_after_attempt(call.attempt_number)
                            THEN "loading"
                            ELSE "raised",
                     !.attempt_number = IF r.exc = "none" \/ ~retry_if_exception_type(r.exc)
                                           \/ stop_after_attempt(call.attempt_number)
                                        THEN 1 ELSE @ + 1,
                     !.index = r.index, !.metadata = r.metadata,
                     !.index_exists = r.index_exists,
                     !.failed = IF r.failed THEN @ \cup {"load"} ELSE @,
                     !.attempts = [@ EXCEPT !.load = call.attempt_number]]
    /\ UNCHANGED <<gcs, registry, pg, started, run, job>>

NextFn ==
    \/ CallRemove
    \/ CallAppend
    \/ CallSave
    \/ CallLoad

SpecFn == InitFn /\ [][NextFn]_vars

(***************************************************************************)
(* The orchestrator started on a bucket whose index was built with the     *)
(* other embedding model, served by a single function instance.            *)
(***************************************************************************)
LargeBucket ==
    [faiss |-> IndexFlatIP(LARGE_DIMENSION, StoredVecs(<< <<"c", ".PDF">> >>)),
     meta |-> [present |-> TRUE, lines |-> StoredLines(<< <<"c", ".PDF">> >>, FALSE)]]

InitDim ==
    /\ gcs = LargeBucket
    /\ registry = [f \in Registered |-> "completed"]
    /\ pg = EmptyBag
    /\ started = 0
    /\ run = [w \in Instances |-> IdleRun]
    /\ call = NoCall
    /\ job = NoJob

\* the function deployed with one instance: events are served in turn
NextDim ==
    \/ \E chunks_data \in Payloads : Receive(1, chunks_data)
    \/ LoadChunks(1)
    \/ RequestEmbeddings(1)
    \/ LoadIndexFile(1)
    \/ LoadMetadataFile(1)
    \/ RemoveStale(1)
    \/ AppendIndex(1)
    \/ SaveIndexFile(1)
    \/ SaveMetadataFile(1)

SpecDim == InitDim /\ [][NextDim]_vars

(***************************************************************************)
(* cloud_functions/main.py: create_embeddings_from_chunks with PostgreSQL  *)
(* as the store (_process_embeddings_pipeline).  Events are served one     *)
(* after the other.                                                        *)
(***************************************************************************)
\* the names process_pdf_to_chunks (the object name) and process_pdf (the
\* base name) write into the chunks object
PgFilenames == Filenames \cup { <<"uploads/", "a", ".pdf">> }

\* the chunks object process_pdf_to_chunks writes for an uploaded file
\* (lines 245-253): it has no 'processed_successfully' key, for which
\* processed_doc.get('processed_successfully', False) answers False
process_pdf_to_chunks(file_name, ver) ==
    [filename |-> file_name, n |-> ChunkCount(ver), ver |-> ver,
     processed_successfully |-> FALSE]

PgPayloads ==
    { [filename |-> f, n |-> ChunkCount(v), ver |-> v, processed_successfully |-> ok] :
        f \in PgFilenames, v \in 1..MaxVersions, ok \in BOOLEAN }

\* VectorDBService.delete_document_embeddings: the rows of this document_id
delete_document_embeddings(table, document_id) ==
    LET rest == {row \in DOMAIN table : row.document_id # document_id}
    IN [row \in rest |-> table[row]]

\* an exception leaves _process_embeddings_pipeline
PgRaise == job' = [job EXCEPT !.pc = "FAILED"]

\* lines 364-369 and 446-447: the event is accepted, the chunks object is
\* read and parsed
PgDownloadChunks(chunks_data) ==
    /\ job.pc \in {"idle", "DONE", "FAILED", "KILLED"}
    /\ started < MaxRuns
    /\ started' = started + 1
    /\ \/ job' = [pc |-> "FAILED", chunks_data |-> chunks_data, document_id |-> <<>>,
                   ops |-> <<>>, before |-> pg, fault |-> TRUE]
       \/ job' = [pc |-> "chunks_downloaded", chunks_data |-> chunks_data,
                   document_id |-> <<>>, ops |-> <<>>, before |-> pg, fault |-> FALSE]
    /\ UNCHANGED <<gcs, registry, pg, run, call>>

\* _update_document_status_start
PgStatusStart ==
    LET document_id == find_document_id(job.chunks_data.filename) IN
    /\ job.pc = "chunks_downloaded"
    /\ job' = [job EXCEPT !.pc = "status_started", !.document_id = document_id]
    /\ registry' = IF document_id # <<>>
                   THEN update_status(registry, document_id, "processing")
                   ELSE registry
    /\ UNCHANGED <<gcs, pg, started, run, call>>

\* _generate_embeddings: process_document_embeddings creates the vectors
\* and stores them in the table (embeddings_service.py line 394)
PgGenerateEmbeddings ==
    LET doc == job.chunks_data IN
    /\ job.pc = "status_started"
    /\ \/ \* not processed_successfully, no chunks, a failed request or a
          \* failed insert: ERROR is reported and the exception raised
          /\ job' = [job EXCEPT !.pc = "FAILED",
                                !.fault = doc.processed_successfully /\ doc.n > 0]
          /\ registry' = IF job.document_id # <<>>
                         THEN update_status(registry, job.document_id, "error")
                         ELSE registry
          /\ UNCHANGED pg
       \/ /\ doc.processed_successfully
          /\ doc.n > 0
          /\ pg' = store_embeddings(pg, create_metadata(doc.filename, doc.n, doc.ver))
          /\ job' = [job EXCEPT !.pc = "embeddings_generated", !.ops = Append(@, "insert")]
          /\ registry' = IF job.document_id # <<>>
                         THEN update_status(registry, job.document_id, "processing")
                         ELSE registry
    /\ UNCHANGED <<gcs, started, run, call>>

\* _manage_postgresql_embeddings
PgManageEmbeddings ==
    LET document_id == ReplacePdf(job.chunks_data.filename) IN
    /\ job.pc = "embeddings_generated"
    /\ \/ \* VectorDBService() raised
          /\ job' = [job EXCEPT !.pc = "FAILED", !.fault = TRUE]
          /\ UNCHANGED pg
       \/ \* the rows of document_id are deleted
          /\ document_id # <<>>
          /\ pg' = delete_document_embeddings(pg, document_id)
          /\ job' = [job EXCEPT !.pc = "postgresql_verified", !.ops = Append(@, "delete")]
       \/ \* delete_document_embeddings answered False, or there is no id
          /\ job' = [job EXCEPT !.pc = "postgresql_verified"]
          /\ UNCHANGED pg
    /\ UNCHANGED <<gcs, registry, started, run, call>>

\* _update_document_status_completed: result has no 'uploaded_files' key,
\* which a registered document reads
PgStatusCompleted ==
    /\ job.pc = "postgresql_verified"
    /\ IF job.document_id # <<>> THEN PgRaise ELSE job' = [job EXCEPT !.pc = "DONE"]
    /\ UNCHANGED <<gcs, registry, pg, started, run, call>>

\* with_processing_resources: the timeout_checker and memory_checker
\* threads end the process with os._exit(1) wherever the pipeline is
PgTimeout ==
    /\ job.pc \in {"chunks_downloaded", "status_started", "embeddings_generated",
                   "postgresql_verified"}
    /\ job' = [job EXCEPT !.pc = "KILLED"]
    /\ UNCHANGED <<gcs, registry, pg, started, run, call>>

NextPg ==
    \/ \E chunks_data \in PgPayloads : PgDownloadChunks(chunks_data)
    \/ PgStatusStart
    \/ PgGenerateEmbeddings
    \/ PgManageEmbeddings
    \/ PgStatusCompleted
    \/ PgTimeout

SpecPg == Init /\ [][NextPg]_vars

(***************************************************************************)
(* services/processing_service.py: DocumentProcessor.split_into_chunks.    *)
(* A text is the sequence of its lines (text.split('\n')).  Of a line the  *)
(* code looks at two things: what it starts with (the patterns) and how    *)
(* many words it has (len(line.split())).  pos is the line's place in the  *)
(* input, 0 for a line the code inserts; tag is the prefix the code has    *)
(* put in front of the line.                                               *)
(***************************************************************************)
MaxLines == 4
CHUNK_SIZE == 250
MIN_CHUNK_SIZE == 50

TargetSizes == {10, CHUNK_SIZE}

LineKinds ==
    { [mark |-> "#", words |-> 3],        \* "# Titulo uno"
      [mark |-> "##", words |-> 3],       \* "## Art 1."
      [mark |-> "###Art", words |-> 3],   \* "### Art. 1"
      [mark |-> "1", words |-> 1],        \* "12", a line of digits
      [mark |-> "---", words |-> 1],      \* "-----", a rule of dashes
      [mark |-> "", words |-> 4],
      [mark |-> "", words |-> MIN_CHUNK_SIZE],
      [mark |-> "", words |-> 0] }        \* the empty line

RECURSIVE LineSeqs(_)
LineSeqs(n) ==
    IF n = 0 THEN {<<>>}
    ELSE LET shorter == LineSeqs(n - 1)
         IN shorter \cup {Append(t, l) : t \in shorter, l \in LineKinds}

\* text.split('\n')
SplitLines(kinds) ==
    [p \in 1..Len(kinds) |->
        [pos |-> p, mark |-> kinds[p].mark, words |-> kinds[p].words, tag |-> <<>>]]

Texts == { SplitLines(kinds) : kinds \in LineSeqs(MaxLines) \ {<<>>} }

\* the patterns are anchored at the start of the string they are given
title_pattern(line) == line.tag = <<>> /\ line.mark = "#"
section_pattern(line) == line.tag = <<>> /\ line.mark = "##"
article_pattern(line) == line.tag = <<>> /\ line.mark = "###Art"
\* r'^\d+\s*\n-{3,}$': digits, a newline and a rule of dashes in one string
page_break_pattern(line) == line.tag = <<>> /\ line.mark = "1\n---"

\* f"[Documento: {os.path.basename(filename)}] "
doc_prefix(filename) == <<"[Documento: ">> \o PathName(filename) \o <<"] ">>
\* the words str.split() finds in the prefix of a name without blanks
PrefixWords == 2

\* doc_prefix + text
Prefixed(lines, filename) == [lines EXCEPT ![1].tag = doc_prefix(filename)]

\* len(text.split())
RECURSIVE WordCount(_)
WordCount(lines) ==
    IF lines = <<>> THEN 0
    ELSE Head(lines).words + (IF Head(lines).tag # <<>> THEN PrefixWords ELSE 0)
         + WordCount(Tail(lines))

\* what "\n\n" puts between two texts: an empty line
Blank == [pos |-> 0, mark |-> "", words |-> 0, tag |-> <<>>]
IsEmptyLine(line) == line.mark = "" /\ line.words = 0 /\ line.tag = <<>>

RECURSIVE Flatten(_)
Flatten(seqs) == IF seqs = <<>> THEN <<>> ELSE Head(seqs) \o Flatten(Tail(seqs))

\* the loop of _split_large_section without the prefix on later chunks
RECURSIVE PackLinesUntagged(_, _, _, _, _)
PackLinesUntagged(rest, current_chunk, chunks, filename, chunk_size) ==
    LET emit == IF chunks = <<>> THEN Prefixed(current_chunk, filename) ELSE current_chunk IN
    IF rest = <<>> THEN Append(chunks, emit)
    ELSE IF WordCount(current_chunk) + Head(rest).words <= chunk_size
    THEN PackLinesUntagged(Tail(rest), Append(current_chunk, Head(rest)), chunks,
                           filename, chunk_size)
    ELSE PackLinesUntagged(Tail(rest), <<current_chunk[1], Head(rest)>>,
                           Append(chunks, emit), filename, chunk_size)

split_large_section_untagged(section_lines, filename, chunk_size) ==
    PackLinesUntagged(Tail(section_lines), <<section_lines[1]>>, <<>>, filename, chunk_size)

\* the loop of _split_large_section: current_chunk starts with the heading
RECURSIVE PackLines(_, _, _, _, _)
PackLines(rest, current_chunk, chunks, filename, chunk_size) ==
    IF rest = <<>> THEN Append(chunks, Prefixed(current_chunk, filename))
    ELSE IF WordCount(current_chunk) + Head(rest).words <= chunk_size
    THEN PackLines(Tail(rest), Append(current_chunk, Head(rest)), chunks, filename, chunk_size)
    ELSE PackLines(Tail(rest), <<current_chunk[1], Head(rest)>>,
                   Append(chunks, Prefixed(current_chunk, filename)), filename, chunk_size)

split_large_section(section_lines, filename, chunk_size) ==
    PackLines(Tail(section_lines), <<section_lines[1]>>, <<>>, filename, chunk_size)

\* section_indices are the places of the headings, ascending
split_by_sections(lines, section_indices, filename, chunk_size) ==
    LET ends == Append(section_indices, Len(lines) + 1)
        part(i) ==
          LET section_lines == SubSeq(lines, ends[i], ends[i + 1] - 1) IN
          IF WordCount(section_lines) <= chunk_size
          THEN << Prefixed(section_lines, filename) >>
          ELSE split_large_section(section_lines, filename, chunk_size)
    IN Flatten([i \in 1..Len(section_indices) |-> part(i)])

\* the same text as _split_by_sections
split_by_articles(lines, article_indices, filename, chunk_size) ==
    split_by_sections(lines, article_indices, filename, chunk_size)

\* text.split('\n\n'): an empty line that has a line before and after it
\* separates two paragraphs
RECURSIVE Paragraphs(_)
Paragraphs(lines) ==
    LET seps == {p \in 2..(Len(lines) - 1) : IsEmptyLine(lines[p])} IN
    IF seps = {} THEN <<lines>>
    ELSE LET p == CHOOSE q \in seps : \A o \in seps : q <= o
         IN <<SubSeq(lines, 1, p - 1)>> \o Paragraphs(SubSeq(lines, p + 1, Len(lines)))

\* '\n\n'.join(current_chunk)
RECURSIVE JoinParagraphs(_)
JoinParagraphs(paragraphs) ==
    IF Len(paragraphs) = 1 THEN paragraphs[1]
    ELSE paragraphs[1] \o <<Blank>> \o JoinParagraphs(Tail(paragraphs))

RECURSIVE PackParagraphs(_, _, _, _, _, _)
PackParagraphs(rest, current_chunk, current_size, chunks, filename, chunk_size) ==
    LET emitted == IF current_chunk # <<>>
                   THEN Append(chunks, Prefixed(JoinParagraphs(current_chunk), filename))
                   ELSE chunks
    IN
    IF rest = <<>> THEN emitted
    ELSE IF current_size + WordCount(Head(rest)) <= chunk_size
    THEN PackParagraphs(Tail(rest), Append(current_chunk, Head(rest)),
                        current_size + WordCount(Head(rest)), chunks, filename, chunk_size)
    ELSE PackParagraphs(Tail(rest), <<Head(rest)>>, WordCount(Head(rest)),
                        emitted, filename, chunk_size)

\* _split_by_paragraphs that leaves the prefix off what it emits
RECURSIVE PackParagraphsUnprefixed(_, _, _, _, _)
PackParagraphsUnprefixed(rest, current_chunk, current_size, chunks, chunk_size) ==
    LET emitted == IF current_chunk # <<>>
                   THEN Append(chunks, JoinParagraphs(current_chunk))
                   ELSE chunks
    IN
    IF rest = <<>> THEN emitted
    ELSE IF current_size + WordCount(Head(rest)) <= chunk_size
    THEN PackParagraphsUnprefixed(Tail(rest), Append(current_chunk, Head(rest)),
                                  current_size + WordCount(Head(rest)), chunks, chunk_size)
    ELSE PackParagraphsUnprefixed(Tail(rest), <<Head(rest)>>, WordCount(Head(rest)),
                                  emitted, chunk_size)

split_by_paragraphs_unprefixed(lines, filename, chunk_size) ==
    PackParagraphsUnprefixed(Paragraphs(lines), <<>>, 0, <<>>, chunk_size)

split_by_paragraphs(lines, filename, chunk_size) ==
    PackParagraphs(Paragraphs(lines), <<>>, 0, <<>>, filename, chunk_size)

\* _combine_small_chunks that also merges a chunk of exactly the minimum
RECURSIVE CombineFromAtMinimum(_, _, _)
CombineFromAtMinimum(chunks, i, processed_chunks) ==
    IF i > Len(chunks) THEN processed_chunks
    ELSE IF /\ WordCount(chunks[i]) <= MIN_CHUNK_SIZE
            /\ i > 1
            /\ ~title_pattern(chunks[i][1])
            /\ ~section_pattern(chunks[i][1])
            /\ processed_chunks # <<>>
    THEN CombineFromAtMinimum(chunks, i + 1,
             [processed_chunks EXCEPT ![Len(processed_chunks)] = @ \o <<Blank>> \o chunks[i]])
    ELSE CombineFromAtMinimum(chunks, i + 1, Append(processed_chunks, chunks[i]))

combine_small_chunks_at_minimum(chunks) ==
    IF chunks = <<>> THEN chunks ELSE CombineFromAtMinimum(chunks, 1, <<>>)

\* the loop of _combine_small_chunks (min_chunk_size has its default)
RECURSIVE CombineFrom(_, _, _)
CombineFrom(chunks, i, processed_chunks) ==
    IF i > Len(chunks) THEN processed_chunks
    ELSE IF /\ WordCount(chunks[i]) < MIN_CHUNK_SIZE
            /\ i > 1
            /\ ~title_pattern(chunks[i][1])
            /\ ~section_pattern(chunks[i][1])
            /\ processed_chunks # <<>>
    THEN CombineFrom(chunks, i + 1,
             [processed_chunks EXCEPT ![Len(processed_chunks)] = @ \o <<Blank>> \o chunks[i]])
    ELSE CombineFrom(chunks, i + 1, Append(processed_chunks, chunks[i]))

combine_small_chunks(chunks) ==
    IF chunks = <<>> THEN chunks ELSE CombineFrom(chunks, 1, <<>>)

\* the headings split_into_chunks finds; a text with an article heading is
\* split at the article headings only
section_indices(lines) ==
    Where(lines, LAMBDA line : title_pattern(line) \/ section_pattern(line))
article_indices(lines) == Where(lines, article_pattern)
page_breaks(lines) ==
    SelectSeq([p \in 1..Len(lines) |-> p],
              LAMBDA p : page_break_pattern(lines[p]) /\ p < Len(lines))

\* page_breaks are the places of the lines the page pattern matched; a page
\* runs from the line after one break to the line before the next
split_by_pages(lines, breaks, filename, chunk_size) ==
    LET bounds == <<0>> \o breaks \o <<Len(lines) + 1>>
        part(i) ==
          LET between == SubSeq(lines, bounds[i] + 1, bounds[i + 1] - 1)
              page_lines == IF between = <<>> THEN <<Blank>> ELSE between
          IN IF WordCount(page_lines) > chunk_size
             THEN split_by_paragraphs(page_lines, filename, chunk_size)
             ELSE << Prefixed(page_lines, filename) >>
    IN Flatten([i \in 1..(Len(bounds) - 1) |-> part(i)])

split_into_chunks(lines, filename, chunk_size) ==
    IF Len(lines) = 1 /\ IsEmptyLine(lines[1]) THEN <<>>     \* not text
    ELSE combine_small_chunks(
           IF article_indices(lines) # <<>>
           THEN split_by_articles(lines, article_indices(lines), filename, chunk_size)
           ELSE IF section_indices(lines) # <<>>
           THEN split_by_sections(lines, section_indices(lines), filename, chunk_size)
           ELSE IF page_breaks(lines) # <<>>
           THEN split_by_pages(lines, page_breaks(lines), filename, chunk_size)
           ELSE split_by_paragraphs(lines, filename, chunk_size))

ChunkFilenames == { <<"a", ".pdf">>, <<"uploads/", "a", ".pdf">> }

\* chunk lists handed to _combine_small_chunks directly: one line each,
\* with or without the prefix
GivenChunks ==
    { [p \in 1..Len(text) |-> IF tagged THEN Prefixed(<<text[p]>>, <<"a", ".pdf">>)
                                          ELSE <<text[p]>>] :
        text \in Texts, tagged \in BOOLEAN }

InitChunks ==
    /\ gcs = EmptyBucket
    /\ registry = [f \in Registered |-> "completed"]
    /\ pg = EmptyBag
    /\ started = 0
    /\ run = [w \in Instances |-> IdleRun]
    /\ job = NoJob
    /\ \/ \E text \in Texts, filename \in ChunkFilenames, chunk_size \in TargetSizes :
             call = [op |-> "text", text |-> text, filename |-> filename,
                     chunk_size |-> chunk_size, given |-> <<>>, chunks |-> <<>>]
       \/ \E given \in GivenChunks :
             call = [op |-> "chunks", text |-> <<>>, filename |-> <<"a", ".pdf">>,
                     chunk_size |-> CHUNK_SIZE, given |-> given, chunks |-> <<>>]

CallSplitIntoChunks ==
    /\ call.op = "text"
    /\ call' = [call EXCEPT !.op = "returned",
                            !.chunks = split_into_chunks(call.text, call.filename,
                                                         call.chunk_size)]
    /\ UNCHANGED <<gcs, registry, pg, started, run, job>>

CallCombineSmallChunks ==
    /\ call.op = "chunks"
    /\ call' = [call EXCEPT !.op = "combined", !.chunks = combine_small_chunks(call.given)]
    /\ UNCHANGED <<gcs, registry, pg, started, run, job>>

NextChunks ==
    \/ CallSplitIntoChunks
    \/ CallCombineSmallChunks

SpecChunks == InitChunks /\ [][NextChunks]_vars

(***************************************************************************)
(* common/services/embeddings_service.py:                                  *)
(* EmbeddingService.process_document_embeddings, called once on a          *)
(* processed document.  The embeddings API and the database are the        *)
(* environment: the API raises or answers with some number of vectors, the *)
(* insert commits or fails.                                                *)
(***************************************************************************)
EmbDocs ==
    { [filename |-> f, n |-> n, ver |-> v, processed_successfully |-> ok] :
        f \in PgFilenames, n \in 0..MaxChunks, v \in 1..MaxVersions, ok \in BOOLEAN }

InitEmb ==
    /\ gcs = EmptyBucket
    /\ registry = [f \in Registered |-> "completed"]
    /\ pg = EmptyBag
    /\ started = 0
    /\ run = [w \in Instances |-> IdleRun]
    /\ job = NoJob
    /\ \E processed_doc \in EmbDocs :
          call = [op |-> "doc", processed_doc |-> processed_doc,
                  answer |-> [raised |-> FALSE, count |-> 0], commits |-> FALSE,
                  result |-> NoResult]

CallProcessDocumentEmbeddings ==
    /\ call.op = "doc"
    /\ \E answer \in ApiAnswers(call.processed_doc.n), commits \in BOOLEAN :
          LET result == process_document_embeddings(call.processed_doc, answer, commits) IN
          /\ call' = [call EXCEPT !.op = "processed",
                                  !.answer = IF result.requested THEN answer ELSE @,
                                  !.commits = IF result.requested THEN commits ELSE @,
                                  !.result = result]
          /\ pg' = store_embeddings(pg, result.stored)
    /\ UNCHANGED <<gcs, registry, started, run, job>>

NextEmb == CallProcessDocumentEmbeddings

SpecEmb == InitEmb /\ [][NextEmb]_vars

(***************************************************************************)
(* Vocabulary of the properties.                                           *)
(***************************************************************************)
Both == {"faiss_index", "metadata"}

\* the bucket holds an index and a metadata table that agree row by row
Aligned(bucket) ==
    /\ bucket.faiss.present
    /\ bucket.meta.present
    /\ ntotal(bucket.faiss) = Len(bucket.meta.lines)
    /\ \A k \in 1..Len(bucket.meta.lines) :
          bucket.faiss.vecs[k] =
              Embed(bucket.meta.lines[k].filename, bucket.meta.lines[k].text,
                    bucket.meta.lines[k].chunk_index)

RowsFor(lines, f) == SelectSeq(lines, LAMBDA row : row.filename = f)
RowsNotFor(lines, f) == SelectSeq(lines, LAMBDA row : row.filename # f)
VecsFor(vecs, f) == SelectSeq(vecs, LAMBDA v : v.f = f)
VecsNotFor(vecs, f) == SelectSeq(vecs, LAMBDA v : v.f # f)

Range(s) == {s[k] : k \in 1..Len(s)}
BagOfSeq(s) == [x \in Range(s) |-> Cardinality({k \in 1..Len(s) : s[k] = x})]

\* the rows and vectors a run creates for its chunks
NewRows(w) ==
    to_csv(create_metadata(run[w].chunks_data.filename, run[w].chunks_data.n,
                           run[w].chunks_data.ver))
NewVecs(w) ==
    generate_embeddings(run[w].chunks_data.filename, run[w].chunks_data.n,
                        run[w].chunks_data.ver).vecs

\* the run of instance w ended with both uploads done, and no other run has
\* written to the bucket since it started and none is under way: the bucket
\* is what w saved
SavedBy(w) ==
    /\ run[w].pc = "PERSISTED"
    /\ run[w].uploaded_files = Both
    /\ ~run[w].interfered
    /\ \A q \in Instances \ {w} : run[q].pc \in Terminal \cup {"idle"}

(***************************************************************************)
(* C1.  After a successful save, the persisted index has as many vectors   *)
(* as the persisted metadata table has rows.                               *)
(***************************************************************************)
C1_IndexMetadataAligned ==
    \A w \in Instances :
        SavedBy(w) => ntotal(gcs.faiss) = Len(gcs.meta.lines)

(***************************************************************************)
(* C2.  Upsert by document: when a document that already has rows in an    *)
(* aligned store is synchronised again and the save succeeds, the          *)
(* persisted metadata holds for it exactly the rows of the new chunk set.  *)
(***************************************************************************)
C2_UpsertByDocument ==
    \A w \in Instances :
        ( /\ SavedBy(w)
          /\ Aligned(run[w].before)
          /\ RowsFor(run[w].before.meta.lines, run[w].chunks_data.filename) # <<>> )
        => RowsFor(gcs.meta.lines, run[w].chunks_data.filename) = NewRows(w)

(***************************************************************************)
(* C3.  Idempotence: synchronising a document whose chunk set is already   *)
(* in the aligned store, with the same chunk set and without any storage   *)
(* error, leaves the vector count and the metadata rows as they were.      *)
(***************************************************************************)
C3_IdempotentPerDocument ==
    \A w \in Instances :
        ( /\ SavedBy(w)
          /\ run[w].swallowed = {}
          /\ Aligned(run[w].before)
          /\ RowsFor(run[w].before.meta.lines, run[w].chunks_data.filename) = NewRows(w) )
        => /\ ntotal(gcs.faiss) = ntotal(run[w].before.faiss)
           /\ BagOfSeq(gcs.meta.lines) = BagOfSeq(run[w].before.meta.lines)

(***************************************************************************)
(* C4.  Failure atomicity: when a run ends FAILED and no other run wrote   *)
(* meanwhile, the bucket is what it was when the run started.              *)
(***************************************************************************)
C4_FailedRunPersistsNothing ==
    \A w \in Instances :
        ( /\ run[w].pc = "FAILED"
          /\ ~run[w].interfered
          /\ \A q \in Instances \ {w} : run[q].pc \in Terminal \cup {"idle"} )
        => gcs = run[w].before

(***************************************************************************)
(* C5.  A run ends as a success, and reports COMPLETED, only when both the *)
(* index upload and the metadata upload succeeded.                         *)
(***************************************************************************)
C5_CompletedOnlyAfterFullSave ==
    \A w \in Instances :
        (run[w].pc = "PERSISTED" \/ run[w].notified = "completed")
        => run[w].uploaded_files = Both

(***************************************************************************)
(* C6.  A successful synchronisation of a document keeps every entry of    *)
(* every other document, whatever the load step did: the store holds the   *)
(* new chunks plus the other documents' entries.                           *)
(***************************************************************************)
C6_OtherDocumentsPreserved ==
    \A w \in Instances :
        LET f == run[w].chunks_data.filename
            before == run[w].before
        IN (SavedBy(w) /\ (before = EmptyBucket \/ Aligned(before)))
           => /\ VecsNotFor(gcs.faiss.vecs, f) = VecsNotFor(before.faiss.vecs, f)
              /\ RowsNotFor(gcs.meta.lines, f) = RowsNotFor(before.meta.lines, f)
              /\ ntotal(gcs.faiss) = run[w].chunks_data.n + Len(VecsNotFor(before.faiss.vecs, f))

(***************************************************************************)
(* C7.  remove_old_document_chunks for document d followed by update_index *)
(* with the chunks of another document e is a frame for the documents      *)
(* other than d: their rows are the same rows in the same relative order,  *)
(* and each of them that had its vector at its position still has that     *)
(* vector at its position.  A row of a table without the document_id       *)
(* column is the same row when it carries the id derived from its file     *)
(* name.                                                                   *)
(***************************************************************************)
\* the document a row belongs to
IdText(row) ==
    IF row.document_id = NoCell THEN FallbackDocumentId(row.filename) ELSE row.document_id.s

OthersIn(rows, d) == Where(rows, LAMBDA row : IdText(row) # d)

SameEntry(r, q) ==
    /\ q.filename = r.filename
    /\ q.chunk_index = r.chunk_index
    /\ q.text = r.text
    /\ IdText(q) = IdText(r)

\* the caller removed d and appended the chunks of a different document
OtherDocumentAppended ==
    /\ call.op = "appended"
    /\ call.document_id \notin {PathStem(call.filename), ReplacePdf(call.filename)}

C7_RemoveThenAppendIsFrame ==
    OtherDocumentAppended =>
        LET kept == SubSeq(call.metadata, 1, Len(call.metadata) - ChunkCount(MaxVersions))
            was == OthersIn(call.given.metadata, call.document_id)
            is == OthersIn(kept, call.document_id)
        IN /\ Len(is) = Len(was)
           /\ \A j \in 1..Len(was) :
                 /\ SameEntry(call.given.metadata[was[j]], kept[is[j]])
                 /\ was[j] <= ntotal(call.given.index)
                    => /\ is[j] <= ntotal(call.index)
                       /\ call.index.vecs[is[j]] = call.given.index.vecs[was[j]]

\* rows of d were removed from between rows of two other documents, whose
\* rows and vectors moved up
C7_Witness ==
    /\ OtherDocumentAppended
    /\ call.removed # <<>>
    /\ ntotal(call.given.index) = Len(call.given.metadata)
    /\ LET was == OthersIn(call.given.metadata, call.document_id)
       IN /\ Len(was) >= 2
          /\ was[1] < call.removed[1]
          /\ call.removed[1] < was[Len(was)]
          /\ call.given.metadata[was[1]].filename # call.given.metadata[was[Len(was)]].filename

(***************************************************************************)
(* C8.  Two runs for different documents that both succeed, without any    *)
(* storage error, leave the entries of both documents in the store,        *)
(* however their steps interleave.                                         *)
(***************************************************************************)
C8_ConcurrentRunsKeepBoth ==
    \A w \in Instances : \A q \in Instances :
        ( /\ w # q
          /\ run[w].pc = "PERSISTED" /\ run[q].pc = "PERSISTED"
          /\ run[w].uploaded_files = Both /\ run[q].uploaded_files = Both
          /\ run[w].swallowed = {} /\ run[q].swallowed = {}
          /\ run[w].chunks_data.filename # run[q].chunks_data.filename )
        => /\ Range(NewVecs(w)) \subseteq Range(gcs.faiss.vecs)
           /\ Range(NewRows(w)) \subseteq Range(gcs.meta.lines)

(***************************************************************************)
(* C9.  Every run visits RECEIVED, CHUNKS_LOADED, EMBEDDINGS_REQUESTED,    *)
(* INDEX_LOADED, STALE_REMOVED, INDEX_APPENDED, PERSISTED in this order; a *)
(* step that fails moves the run to FAILED; PERSISTED and FAILED are       *)
(* terminal.                                                               *)
(***************************************************************************)
\* the state of the per-request state machine a position belongs to
StateOf(pc) ==
    CASE pc = "INDEX_LOADING" -> "EMBEDDINGS_REQUESTED"
      [] pc = "SAVING" -> "INDEX_APPENDED"
      [] OTHER -> pc

Successor(state) ==
    CASE state = "RECEIVED" -> "CHUNKS_LOADED"
      [] state = "CHUNKS_LOADED" -> "EMBEDDINGS_REQUESTED"
      [] state = "EMBEDDINGS_REQUESTED" -> "INDEX_LOADED"
      [] state = "INDEX_LOADED" -> "STALE_REMOVED"
      [] state = "STALE_REMOVED" -> "INDEX_APPENDED"
      [] state = "INDEX_APPENDED" -> "PERSISTED"
      [] OTHER -> "none"

\* instance w takes up a new event
NewRun(w) == started' = started + 1 /\ run'[w].pc = "RECEIVED"

InOrder(w) ==
    \/ NewRun(w)
    \/ StateOf(run'[w].pc) = StateOf(run[w].pc)
    \/ StateOf(run'[w].pc) = Successor(StateOf(run[w].pc))
    \/ run[w].pc \notin Terminal \cup {"idle"} /\ run'[w].pc = "FAILED"

FailureEndsRun(w) ==
    run'[w].swallowed # run[w].swallowed /\ run'[w].swallowed # {}
    => run'[w].pc = "FAILED"

TerminalStays(w) ==
    run[w].pc \in Terminal => (NewRun(w) \/ run'[w].pc = run[w].pc)

C9_StateMachine ==
    [][\A w \in Instances : InOrder(w) /\ FailureEndsRun(w) /\ TerminalStays(w)]_vars

(***************************************************************************)
(* C10.  In a run of the PostgreSQL pipeline the rows of the document are  *)
(* deleted before the new rows are inserted, and after a successful run    *)
(* the table holds for the document exactly the rows of the new chunk set. *)
(***************************************************************************)
RowsOfFile(table, f) ==
    LET rows == {row \in DOMAIN table : row.filename = f}
    IN [row \in rows |-> table[row]]

C10_DeleteBeforeInsert ==
    job.pc = "DONE" =>
        /\ job.ops = <<"delete", "insert">>
        /\ RowsOfFile(pg, job.chunks_data.filename) =
              store_embeddings(EmptyBag,
                               create_metadata(job.chunks_data.filename, job.chunks_data.n,
                                               job.chunks_data.ver))

(***************************************************************************)
(* C11.  Dimension mismatch is fatal: when the index a run is about to     *)
(* append to has another dimension than the new embeddings, the append     *)
(* step ends the run as FAILED at once (no second attempt), ERROR is       *)
(* reported, nothing has been uploaded and the bucket is unchanged.        *)
(***************************************************************************)
Mismatch(w) ==
    /\ run[w].pc = "STALE_REMOVED"
    /\ run[w].index.present
    /\ run[w].index.d #
          generate_embeddings(run[w].chunks_data.filename, run[w].chunks_data.n,
                              run[w].chunks_data.ver).d

C11_DimensionMismatchIsFatal ==
    [][\A w \in Instances :
          (Mismatch(w) /\ run'[w].pc # run[w].pc)
          => /\ run'[w].pc = "FAILED"
             /\ run'[w].error = "dimension"
             /\ run'[w].notified = "error"
             /\ run'[w].uploaded_files = {}
             /\ gcs' = gcs]_vars

\* a run failed on the mismatch and the bucket is the one it started with
C11_Witness ==
    \E w \in Instances :
        /\ run[w].pc = "FAILED"
        /\ run[w].error = "dimension"
        /\ ~run[w].interfered
        /\ gcs = run[w].before
        /\ gcs.faiss.d = LARGE_DIMENSION

(***************************************************************************)
(* C12.  Bounded retry: a load or a save of the index in which a request   *)
(* to the storage service failed was attempted again (at most three        *)
(* attempts), or it raised; it never returns after a single attempt.       *)
(***************************************************************************)
C12_BoundedRetry ==
    /\ call.op # "none" =>
          /\ call.attempts.save <= 3
          /\ call.attempts.load <= 3
    /\ (call.op = "saved" /\ "save" \in call.failed) => call.attempts.save > 1
    /\ (call.op = "loaded" /\ "load" \in call.failed) => call.attempts.load > 1

(***************************************************************************)
(* C14.  Round trip: after a save of an index and metadata of equal length *)
(* that uploaded both files, a load in which no request failed returns an  *)
(* index of the same dimension and vector count, the same metadata rows in *)
(* the same order, and index_exists = True.                                *)
(***************************************************************************)
C14_SaveLoadRoundTrip ==
    ( /\ call.op = "loaded"
      /\ call.uploaded_files = Both
      /\ "load" \notin call.failed
      /\ ntotal(call.saved.index) = Len(call.saved.metadata) )
    => /\ call.index_exists
       /\ call.index.d = call.saved.index.d
       /\ ntotal(call.index) = ntotal(call.saved.index)
       /\ call.metadata = call.saved.metadata

(***************************************************************************)
(* C13.  Cancellation safety: a run that the timeout watchdog ended before *)
(* it completed leaves the embeddings table as it was when the run began.  *)
(***************************************************************************)
C13_AbandonedRunLeavesStore ==
    job.pc = "KILLED" => pg = job.before

(***************************************************************************)
(* Vocabulary of the chunking properties.                                  *)
(***************************************************************************)
\* the input lines a chunk holds
LinesOf(chunk) == {chunk[k].pos : k \in 1..Len(chunk)} \ {0}

\* the headings that delimit the structural units of a text: the article
\* headings when it has one, else the title and section headings
Headings(text) ==
    LET articles == {p \in 1..Len(text) : text[p].mark = "###Art"} IN
    IF articles # {} THEN articles
    ELSE {p \in 1..Len(text) : text[p].mark \in {"#", "##"}}

\* the unit line p belongs to: the number of headings up to p
Unit(text, p) == Cardinality({h \in Headings(text) : h <= p})

UnitLines(text, u) == {p \in 1..Len(text) : Unit(text, p) = u}

RECURSIVE SumWords(_, _)
SumWords(text, ps) ==
    IF ps = {} THEN 0
    ELSE LET p == CHOOSE q \in ps : TRUE IN text[p].words + SumWords(text, ps \ {p})

(***************************************************************************)
(* C15.  Structural integrity: no chunk split_into_chunks returns holds    *)
(* lines of two different sections (articles).                             *)
(***************************************************************************)
C15_StructuralIntegrity ==
    call.op = "returned" =>
        \A i \in 1..Len(call.chunks) :
            \A p, q \in LinesOf(call.chunks[i]) : Unit(call.text, p) = Unit(call.text, q)

(***************************************************************************)
(* C16.  Small-chunk merge rule: _combine_small_chunks merges a chunk into *)
(* its predecessor exactly when it is not the first, has fewer words than  *)
(* the minimum (50) and does not open with a title or section marker; the  *)
(* output is the kept chunks, each followed by the chunks merged into it,  *)
(* and is never longer than the input.                                     *)
(***************************************************************************)
OpensWithMarker(chunk) == chunk[1].tag = <<>> /\ chunk[1].mark \in {"#", "##"}

Merged(given, i) ==
    /\ i > 1
    /\ WordCount(given[i]) < 50
    /\ ~OpensWithMarker(given[i])

Kept(given) == SelectSeq([i \in 1..Len(given) |-> i], LAMBDA i : ~Merged(given, i))

RECURSIVE Glue(_, _, _)
\* given[from], then every merged chunk that follows it, joined by an
\* empty line
Glue(given, from, to) ==
    IF from = to THEN given[from]
    ELSE Glue(given, from, to - 1) \o <<Blank>> \o given[to]

C17_OneChunkPerSection ==
    ( /\ call.op = "returned"
      /\ 1 \in Headings(call.text)
      /\ \A u \in 1..Cardinality(Headings(call.text)) :
            SumWords(call.text, UnitLines(call.text, u)) <= call.chunk_size )
    => /\ Len(call.chunks) = Cardinality(Headings(call.text))
       /\ \A i \in 1..Len(call.chunks) :
             LinesOf(call.chunks[i]) = UnitLines(call.text, i)

C19_RegistryFollowsOutcome ==
    [][\A w \in Instances :
          ( /\ run[w].pc \notin Terminal
            /\ run'[w].pc \in Terminal
            /\ run[w].chunks_data.filename \in Registered
            /\ run[w].notified # "none" )
          => registry'[run[w].chunks_data.filename] =
                IF run'[w].pc = "PERSISTED" THEN "completed" ELSE "error"]_vars

(***************************************************************************)
(* C20.  End-to-end progress: a run on a chunks object that                *)
(* process_pdf_to_chunks wrote, with at least one chunk, ends FAILED only  *)
(* if a request to the embeddings API, the database or the storage failed. *)
(***************************************************************************)
C20_EndToEndProgress ==
    ( /\ job.pc = "FAILED"
      /\ job.chunks_data.n >= 1
      /\ job.chunks_data =
            process_pdf_to_chunks(job.chunks_data.filename, job.chunks_data.ver) )
    => job.fault

(***************************************************************************)
(* C21.  remove_old_document_chunks removes exactly the matching rows:     *)
(* given a present index and as many metadata rows (at least one), the     *)
(* returned metadata has no row of the document, the removed positions are *)
(* as many as the rows of the document, the other rows are retained in     *)
(* their order, and the returned index has as many vectors as the returned *)
(* metadata has rows.                                                      *)
(***************************************************************************)
RemoveCalled ==
    /\ call.op = "removed"
    /\ call.given.index.present
    /\ call.given.metadata # <<>>
    /\ ntotal(call.given.index) = Len(call.given.metadata)

MatchingIn(rows, d) == Where(rows, LAMBDA row : IdText(row) = d)

C21_RemovesExactlyMatching ==
    RemoveCalled =>
        LET others == OthersIn(call.given.metadata, call.document_id) IN
        /\ MatchingIn(call.metadata, call.document_id) = <<>>
        /\ Len(call.removed) = Len(MatchingIn(call.given.metadata, call.document_id))
        /\ Len(call.metadata) = Len(others)
        /\ \A j \in 1..Len(others) :
              j <= Len(call.metadata)
              => SameEntry(call.given.metadata[others[j]], call.metadata[j])
        /\ ntotal(call.index) = Len(call.metadata)

(***************************************************************************)
(* C22.  Removal that empties the index: when each of the n rows belongs   *)
(* to the document, remove_old_document_chunks returns no index, no rows   *)
(* and n removed positions, and the append that follows returns an index   *)
(* of the new vectors only.                                                *)
(***************************************************************************)
C22_RemovalThatEmpties ==
    ( /\ call.op \in {"removed", "appended"}
      /\ call.given.index.present
      /\ call.given.metadata # <<>>
      /\ ntotal(call.given.index) = Len(call.given.metadata)
      /\ OthersIn(call.given.metadata, call.document_id) = <<>> )
    => /\ Len(call.removed) = Len(call.given.metadata)
       /\ call.op = "removed" => call.index = None /\ call.metadata = <<>>
       /\ call.op = "appended"
          => /\ call.index =
                  IndexFlatIP(VECTOR_DIMENSION,
                              generate_embeddings(call.filename, ChunkCount(MaxVersions),
                                                  MaxVersions).vecs)
             /\ call.metadata =
                  create_metadata(call.filename, ChunkCount(MaxVersions), MaxVersions)

(***************************************************************************)
(* C23.  update_index keeps rows aligned: without an index it returns an   *)
(* index of the new vectors' dimension holding the new vectors, with the   *)
(* new rows; with an index of as many vectors as there are rows it returns *)
(* the existing entries first and the new entries last, as many vectors as *)
(* rows.                                                                   *)
(***************************************************************************)
C23_AppendKeepsAligned ==
    [][( /\ call.op = "removed"
         /\ call'.op = "appended"
         /\ ntotal(call.index) = Len(call.metadata) )
       => LET new_embeddings ==
                generate_embeddings(call.filename, ChunkCount(MaxVersions), MaxVersions)
              new_metadata ==
                create_metadata(call.filename, ChunkCount(MaxVersions), MaxVersions)
          IN /\ ntotal(call'.index) = Len(call'.metadata)
             /\ IF call.index.present
                THEN /\ call'.index.d = call.index.d
                     /\ call'.index.vecs = call.index.vecs \o new_embeddings.vecs
                     /\ call'.metadata = call.metadata \o new_metadata
                ELSE /\ call'.index.d = new_embeddings.d
                     /\ call'.index.vecs = new_embeddings.vecs
                     /\ call'.metadata = new_metadata]_vars

\* an append to an index that kept entries of two other documents
C23_Witness ==
    /\ call.op = "appended"
    /\ ntotal(call.index) = Len(call.metadata)
    /\ Len(call.metadata) >= 2 + ChunkCount(MaxVersions)
    /\ call.metadata[1].filename # call.metadata[2].filename
    /\ call.metadata[Len(call.metadata)].filename = call.filename
    /\ call.index.vecs[Len(call.metadata)].v = MaxVersions

(***************************************************************************)
(* C24.  Corrupted store is rejected: a run that has loaded an index whose *)
(* vector count differs from the number of metadata rows it loaded goes to *)
(* FAILED from there, without removing, appending or saving.               *)
(***************************************************************************)
LoadedCorrupted(w) ==
    /\ run[w].pc = "INDEX_LOADED"
    /\ run[w].index.present
    /\ ntotal(run[w].index) # Len(run[w].metadata)

C24_CorruptedStoreRejected ==
    [][\A w \in Instances :
          (LoadedCorrupted(w) /\ run'[w].pc # run[w].pc) => run'[w].pc = "FAILED"]_vars

(***************************************************************************)
(* C25.  Split strategy priority: a text whose only markers are page       *)
(* breaks (a line of digits followed by a rule of dashes) is split at its  *)
(* page boundaries: no returned chunk holds a line from before a page      *)
(* break and a line from after it.  Pages under the merge minimum are left *)
(* out, since the small-chunk pass may join those to the page before.      *)
(***************************************************************************)
PageBreaksOf(text) ==
    {p \in 1..(Len(text) - 1) : text[p].mark = "1" /\ text[p + 1].mark = "---"}

\* the lines from page break p up to the next page break or the end
PageAfter(text, p) ==
    {q \in (p + 1)..Len(text) : \A b \in PageBreaksOf(text) : b > p => q < b}

C25_PageBreaksSplit ==
    (call.op = "returned" /\ Headings(call.text) = {})
    => \A p \in PageBreaksOf(call.text) :
          SumWords(call.text, PageAfter(call.text, p)) >= MIN_CHUNK_SIZE
          => \A k \in 1..Len(call.chunks) :
                ~ /\ \E q \in LinesOf(call.chunks[k]) : q < p
                  /\ \E q \in LinesOf(call.chunks[k]) : q > p

(***************************************************************************)
(* C26.  Small unstructured text: for a non-empty text with fewer words    *)
(* than the target size, no heading and no page-break marker,              *)
(* split_into_chunks returns exactly one chunk, and that chunk is the      *)
(* document prefix followed by the input text.                             *)
(***************************************************************************)
\* the characters of a text, whatever place its lines came from
Content(lines) ==
    [k \in 1..Len(lines) |->
        [mark |-> lines[k].mark, words |-> lines[k].words, tag |-> lines[k].tag]]

SmallUnstructured ==
    /\ call.op = "returned"
    /\ ~ (Len(call.text) = 1 /\ IsEmptyLine(call.text[1]))
    /\ Headings(call.text) = {}
    /\ PageBreaksOf(call.text) = {}
    /\ WordCount(call.text) < call.chunk_size

C27_OneVectorOneRowPerChunk ==
    call.op = "processed" =>
      LET doc == call.processed_doc
          res == call.result
      IN /\ res.processed_successfully =>
              /\ Len(res.embeddings) = doc.n
              /\ Len(res.metadata) = doc.n
              /\ \A k \in 1..doc.n :
                    /\ res.embeddings[k] = Embed(doc.filename, doc.ver, k - 1)
                    /\ res.metadata[k].chunk_index = k - 1
                    /\ res.metadata[k].filename = doc.filename
              /\ \A j, k \in 1..doc.n :
                    j # k => res.metadata[j].chunk_id # res.metadata[k].chunk_id
         /\ (res.requested /\ ~call.answer.raised /\ call.answer.count # doc.n)
               => pg = EmptyBag

\* a document of several chunks was embedded and stored
C27_Witness ==
    /\ call.op = "processed"
    /\ call.result.processed_successfully
    /\ call.processed_doc.n > 1
    /\ BagCardinality(pg) = call.processed_doc.n

(***************************************************************************)
(* C28.  Empty chunk input is a validation failure: the run of a document  *)
(* with zero chunks goes from the loaded chunks straight to FAILED, the    *)
(* error is reported for a registered document, no request was made to the *)
(* embeddings API, no further run is started and neither the bucket nor    *)
(* the table changes.                                                      *)
(***************************************************************************)
ZeroChunks(w) ==
    /\ run[w].pc = "CHUNKS_LOADED"
    /\ run[w].chunks_data.processed_successfully
    /\ run[w].chunks_data.n = 0

C28_EmptyChunksRejected ==
    [][\A w \in Instances :
          (ZeroChunks(w) /\ run'[w].pc # run[w].pc)
          => /\ run'[w].pc = "FAILED"
             /\ ~run'[w].requested
             /\ gcs' = gcs /\ pg' = pg
             /\ started' = started
             /\ run[w].document_id # <<>>
                => /\ run'[w].notified = "error"
                   /\ \A f \in Registered :
                         RegisteredId(f) = run[w].document_id => registry'[f] = "error"]_vars

\* a zero-chunk run of a registered document has failed and reported it
C28_Witness ==
    \E w \in Instances :
       /\ run[w].pc = "FAILED"
       /\ run[w].chunks_data.processed_successfully
       /\ run[w].chunks_data.n = 0
       /\ run[w].notified = "error"
       /\ ~run[w].requested

(***************************************************************************)
(* C29.  Removal key matches stored key: the document_id a run hands to    *)
(* the removal of stale rows is the document_id create_metadata writes in  *)
(* the rows of the same file, and the id the filename fallback derives for *)
(* that file is the same again.                                            *)
(***************************************************************************)
C29_RemovalKeyIsStoredKey ==
    \A w \in Instances :
       run[w].pc = "STALE_REMOVED" =>
          LET filename == run[w].chunks_data.filename
              rows == create_metadata(filename, run[w].chunks_data.n, run[w].chunks_data.ver)
          IN /\ \A k \in 1..Len(rows) : rows[k].document_id = StrCell(run[w].document_id)
             /\ FallbackDocumentId(filename) = run[w].document_id

(***************************************************************************)
(* C30.  No source text is dropped by chunking: every line of the input    *)
(* that has words is in at least one returned chunk, the lines before the  *)
(* first heading included, and the chunks follow the order of the source:  *)
(* a later chunk does not start before an earlier one.                     *)
(***************************************************************************)
FirstLine(chunk) == CHOOSE p \in LinesOf(chunk) : \A q \in LinesOf(chunk) : p <= q

C30_NoTextDropped ==
    call.op = "returned" =>
       /\ \A p \in 1..Len(call.text) :
             call.text[p].words > 0
             => \E k \in 1..Len(call.chunks) : p \in LinesOf(call.chunks[k])
       /\ \A j, k \in 1..Len(call.chunks) :
             (j < k /\ LinesOf(call.chunks[j]) # {} /\ LinesOf(call.chunks[k]) # {})
             => FirstLine(call.chunks[j]) <= FirstLine(call.chunks[k])

====
